---- MODULE Spec2Model ----
(***************************************************************************)
(* pubnix-domain-watcher (src/main.ts): a filesystem watcher on /home      *)
(* that provisions a domain when <home>/.domain is created and             *)
(* decommissions it when <home>/.remove-domain is created.                 *)
(*                                                                         *)
(* Strings the program takes apart (paths, the DS tool's output) are       *)
(* sequences of one-character strings.  Every await of the program is one  *)
(* action; the users, the kernel watcher and the external tools are the    *)
(* environment.                                                            *)
(***************************************************************************)
EXTENDS Naturals, Sequences, FiniteSets

VARIABLES
    home,       \* the watched tree: path -> entry (absent, a file, a directory)
    files,      \* the artifacts under /etc: a set of file names
    queue,      \* events the watcher holds for the `for await` loop
    loop,       \* the driving loop: its position, the event and path index
    runs,       \* the pipeline runs in progress (createDomain / removeDomain calls)
    finished,   \* the run that ended last, with its outcome
    last,       \* domain -> the last ended run of the domain: its kind, its
                \*   outcome, whether it changed the artifacts
    nOps,       \* the number of operations of users so far
    nFaults,    \* the number of failures of tools and file operations so far
    menu,       \* what the users of this behaviour create under /home
    dsfromkey   \* a call of the DS derivation by itself: domain, tool output,
                \*   result

vars ==
    <<home, files, queue, loop, runs, finished, last, nOps, nFaults, menu,
      dsfromkey>>

(***************************************************************************)
(* Bounds of the model.                                                    *)
(***************************************************************************)
MaxEnvOps == 4      \* operations of users on the watched tree
MaxFaults == 1      \* failures of external commands and file operations
MaxKeys == 2        \* distinct DNSSEC key tags the key tool can hand out
MaxPieces == 3      \* pieces of text in an output of the DS tool taken alone

(***************************************************************************)
(* Text.                                                                   *)
(***************************************************************************)
WhiteSpace == {" ", "\n", "\t"}
LineTerminators == {"\n", "\r"}

RECURSIVE TrimStart(_)
TrimStart(s) ==
    IF s # <<>> /\ Head(s) \in WhiteSpace THEN TrimStart(Tail(s)) ELSE s

RECURSIVE TrimEnd(_)
TrimEnd(s) ==
    IF s # <<>> /\ s[Len(s)] \in WhiteSpace
    THEN TrimEnd(SubSeq(s, 1, Len(s) - 1)) ELSE s

\* String.prototype.trim
Trim(s) == TrimEnd(TrimStart(s))

\* the positions at which pat occurs in s
Occurrences(s, pat) ==
    {i \in 1..(Len(s) + 1) :
        /\ i + Len(pat) - 1 <= Len(s)
        /\ SubSeq(s, i, i + Len(pat) - 1) = pat}

\* String.prototype.replace with a string pattern: the first occurrence only
ReplaceFirst(s, pat, rep) ==
    LET occ == Occurrences(s, pat) IN
    IF occ = {} THEN s
    ELSE LET i == CHOOSE k \in occ : \A m \in occ : k <= m IN
         SubSeq(s, 1, i - 1) \o rep \o SubSeq(s, i + Len(pat), Len(s))

RECURSIVE SplitFrom(_, _, _)
SplitFrom(s, sep, cur) ==
    IF s = <<>> THEN <<cur>>
    ELSE IF Head(s) = sep THEN <<cur>> \o SplitFrom(Tail(s), sep, <<>>)
    ELSE SplitFrom(Tail(s), sep, Append(cur, Head(s)))

\* String.prototype.split with a one-character separator
Split(s, sep) == SplitFrom(s, sep, <<>>)

(***************************************************************************)
(* The two trigger shapes.                                                 *)
(***************************************************************************)
HomeSlash == <<"/", "h", "o", "m", "e", "/">>
DomainTail == <<"d", "o", "m", "a", "i", "n">>
RemoveDomainTail ==
    <<"r", "e", "m", "o", "v", "e", "-", "d", "o", "m", "a", "i", "n">>

\* /^\/home\/[^/]*\/.<tail>$/ : "/home/", any run without a slash, a slash,
\* ANY one character that is no line terminator (the dot is not escaped),
\* the literal tail, the end of the string.
ShapeTest(p, tail) ==
    \E n \in 0..Len(p) :
        /\ Len(p) = Len(HomeSlash) + n + 2 + Len(tail)
        /\ SubSeq(p, 1, Len(HomeSlash)) = HomeSlash
        /\ \A k \in (Len(HomeSlash) + 1)..(Len(HomeSlash) + n) : p[k] # "/"
        /\ p[Len(HomeSlash) + n + 1] = "/"
        /\ p[Len(HomeSlash) + n + 2] \notin LineTerminators
        /\ SubSeq(p, Len(HomeSlash) + n + 3, Len(p)) = tail

domainRegex(p) == ShapeTest(p, DomainTail)
removeDomainRegex(p) == ShapeTest(p, RemoveDomainTail)

\* path.split("/")[1]
DomainOfFirstSegment(p) == Split(p, "/")[2]

\* path.split("/")[2]
DomainOf(p) == Split(p, "/")[3]

(***************************************************************************)
(* The watched tree.  Paths the users of the model create: the two         *)
(* triggers of user a, the create trigger of user b, a file in a's home    *)
(* whose name differs from .domain in its first character, and a .domain   *)
(* one directory deeper.                                                   *)
(***************************************************************************)
UserA == <<"a">>
UserB == <<"b">>
InHome(user, name) == HomeSlash \o user \o <<"/">> \o name

PathDomainA == InHome(UserA, <<".">> \o DomainTail)
PathRemoveA == InHome(UserA, <<".">> \o RemoveDomainTail)
PathDomainB == InHome(UserB, <<".">> \o DomainTail)
PathOtherA == InHome(UserA, <<"x">> \o DomainTail)
PathDeepA == InHome(UserA, <<"s", "/", ".">> \o DomainTail)

Paths == {PathDomainA, PathRemoveA, PathDomainB, PathOtherA, PathDeepA}
Domains == {DomainOf(p) : p \in Paths}

RootUid == 0
\* The service restarts system units and writes under /etc: it runs as root,
\* and a file it creates belongs to root.
ServiceUid == RootUid

\* An event of the watcher: event.kind and event.paths; `by` records, for the
\* properties, whose change of the tree the watcher reports
Event(kind, paths, by) == [kind |-> kind, paths |-> paths, by |-> by]
NoEvent == Event("none", <<>>, "none")

(***************************************************************************)
(* Artifacts of a domain, under /etc.                                      *)
(***************************************************************************)
Art(t, d) == [t |-> t, d |-> d, id |-> 0, ext |-> ""]
Crt(d) == Art("crt", d)                 \* /etc/ssl/certs/<d>.crt
Key(d) == Art("key", d)                 \* /etc/ssl/private/<d>.key
Zone(d) == Art("zone", d)               \* /etc/coredns/zones/db.<d>
Corefile(d) == Art("corefile", d)       \* /etc/coredns/corefiles/<d>.Corefile
Caddyfile(d) == Art("caddyfile", d)     \* /etc/caddy/caddyfiles/<d>.Caddyfile
\* /etc/coredns/keys/K<d>.+013+<id>.<ext>
DnssecFile(d, id, ext) == [t |-> "dnssec", d |-> d, id |-> id, ext |-> ext]
KeyPair(d, id) == {DnssecFile(d, id, "key"), DnssecFile(d, id, "private")}
KeyIds == 1..MaxKeys

ArtifactsOf(d) == {f \in files : f.d = d}

(***************************************************************************)
(* Configuration (.env) and what the external tools print.                 *)
(***************************************************************************)
EnvNS == "env.NS"
EnvA == "env.A"
EnvAAAA == "env.AAAA"

\* tlsa.sh prints the TLSA value, here with the newline of a shell script
TlsaOutputs == {<<"3", " ", "1", "\n">>}

\* `<domain>. IN DS `
DsPrefix(d) == d \o <<".", " ", "I", "N", " ", "D", "S", " ">>
\* dnssec-dsfromkey prints one DS line, led by the prefix
DsOutputs(d) == {DsPrefix(d) \o <<"7", " ", "2", "\n">>}

(***************************************************************************)
(* What a trigger file holds: what the user put there (ignored on input),  *)
(* the success message of createDomain, or `Error: <message>`.             *)
(***************************************************************************)
Content(kind, msg, d, ds, tlsa, ns, a, aaaa) ==
    [kind |-> kind, msg |-> msg, d |-> d, ds |-> ds, tlsa |-> tlsa,
     ns |-> ns, a |-> a, aaaa |-> aaaa]
UserContent == Content("user", "", <<>>, <<>>, <<>>, "", "", "")
\* `Error: ${e.message}`
ErrorContent(msg) == Content("error", msg, <<>>, <<>>, <<>>, "", "", "")
\* the template of lines 26-40
SuccessMessage(d, DsRecord, TlsaRecord) ==
    Content("ok", "", d, DsRecord, TlsaRecord, EnvNS, EnvA, EnvAAAA)

\* an entry of the watched tree
Absent == [k |-> "absent", uid |-> RootUid, c |-> UserContent]
FileOf(uid, c) == [k |-> "file", uid |-> uid, c |-> c]
DirOf(uid) == [k |-> "dir", uid |-> uid, c |-> UserContent]

\* e.message of the error thrown at each step
ErrorText ==
    [cert |-> "Failed to generate certificates: <stderr>",
     tlsa |-> "Failed to generate TLSA record: <stderr>",
     zone |-> "<os error writing the zone file>",
     keygen |-> "Failed to generate DNSSEC key: <stderr>",
     corefile |-> "<os error writing the Corefile>",
     ds |-> "Failed to generate DS record: <stderr>",
     caddyWrite |-> "<os error writing the Caddyfile>",
     caddyValidate |-> "Failed to validate Caddyfile: <stderr>",
     restart |-> "Failed to restart CoreDNS: <stderr>",
     reload |-> "Failed to reload Caddy: <stderr>",
     writeOk |-> "<os error writing the trigger file>",
     rmCrt |-> "<os error removing the certificate>",
     rmKey |-> "<os error removing the private key>",
     rmZone |-> "<os error removing the zone file>",
     rmDnssec |-> "<os error removing a DNSSEC key file>",
     rmCorefile |-> "<os error removing the Corefile>",
     rmCaddy |-> "<os error removing the Caddyfile>",
     rmTrigger |-> "<os error removing the trigger file>"]

(***************************************************************************)
(* A pipeline run: one call of createDomain or removeDomain.               *)
(***************************************************************************)
\* the awaits of createDomain (lines 15-42) and of removeDomain (182-191)
\* createDomain with the restart of line 23 moved before line 16
CreateOrderRestartEarly ==
    <<"cert", "tlsa", "restart", "zone", "keygen", "corefile", "ds",
      "caddyWrite", "caddyValidate", "reload", "writeOk">>

CreateOrder ==
    <<"cert", "tlsa", "zone", "keygen", "corefile", "ds", "caddyWrite",
      "caddyValidate", "restart", "reload", "writeOk">>
RemoveOrder ==
    <<"rmCrt", "rmKey", "rmZone", "rmDnssec", "rmCorefile", "rmCaddy",
      "restart", "reload", "rmTrigger">>
OrderOf(kind) == IF kind = "create" THEN CreateOrder ELSE RemoveOrder

\* the await that follows pc in the pipeline of that kind
After(kind, pc) ==
    LET o == OrderOf(kind)
        i == CHOOSE k \in 1..Len(o) : o[k] = pc
    IN o[i + 1]

\* A run: the arguments and locals of the call (path, domain, TlsaRecord,
\* keyFile, DsRecord, the caught error e), the await it stands at, and, for
\* the properties, what it has done (steps, the step that threw, its
\* writes and deletes of the trigger file) and what it started from (the
\* artifacts on disk, the end of the domain's previous run)
NoLast == <<"none", "never", FALSE>>
NewRun(kind, p) ==
    [kind |-> kind, path |-> p, domain |-> DomainOf(p),
     pc |-> OrderOf(kind)[1], tlsa |-> <<>>, keyFile |-> 0, dsRaw |-> <<>>,
     ds |-> <<>>, err |-> "", failed |-> "", steps |-> <<>>, ops |-> 0,
     before |-> files, prev |-> last[DomainOf(p)]]
NoRun ==
    [kind |-> "none", path |-> <<>>, domain |-> <<>>,
     pc |-> "", tlsa |-> <<>>, keyFile |-> 0, dsRaw |-> <<>>,
     ds |-> <<>>, err |-> "", failed |-> "", steps |-> <<>>, ops |-> 0,
     before |-> {}, prev |-> NoLast]

\* the step at r.pc returned: on to the next await
Ok(r) == [r EXCEPT !.pc = After(r.kind, r.pc), !.steps = Append(@, r.pc)]
\* the step at r.pc threw: the catch of line 44 / 193 starts the error write
Throw(r, at) ==
    [r EXCEPT !.pc = "writeErr", !.err = ErrorText[at], !.failed = at,
              !.steps = Append(@, r.pc)]
Step(r, r2) == runs' = (runs \ {r}) \cup {r2}

\* an external command exits non-zero, or a file operation is rejected for
\* a reason the state of the model does not decide
Fault == nFaults < MaxFaults /\ nFaults' = nFaults + 1
NoFault == UNCHANGED nFaults

(***************************************************************************)
(* The driving loop (lines 262-284).                                       *)
(***************************************************************************)
Idle == [pc |-> "poll", ev |-> NoEvent, i |-> 0]
Crashed == [pc |-> "crashed", ev |-> NoEvent, i |-> 0]

\* lines 265 and 273: which branch a path takes
Classify(p) ==
    IF domainRegex(p) THEN "create"
    ELSE IF removeDomainRegex(p) THEN "remove"
    ELSE "ignore"

\* the loop without the test of line 263
ActsOnAnyKind(ev) == TRUE

\* line 263
ActsOn(ev) == ev.kind = "create"

\* the loop after the paths before index i are done: it runs without an
\* await up to the Deno.stat of the next path that has a trigger shape, or
\* back to the watcher
Resume(ev, i) ==
    LET hits == {j \in i..Len(ev.paths) : Classify(ev.paths[j]) # "ignore"} IN
    IF hits = {} THEN Idle
    ELSE LET j == CHOOSE k \in hits : \A m \in hits : k <= m IN
         [pc |-> IF Classify(ev.paths[j]) = "create"
                 THEN "statCreate" ELSE "statRemove",
          ev |-> ev, i |-> j]

\* lines 268 and 276
IsRootOwned(entry) == entry.uid = RootUid

\* the call without its await: the loop goes on while the run is under way
DispatchNoAwait(kind, p) ==
    /\ runs' = runs \cup {NewRun(kind, p)}
    /\ loop' = Resume(loop.ev, loop.i + 1)

\* `await createDomain(path)` / `await removeDomain(path)`: the call starts
\* the run, and the loop waits for it
Dispatch(kind, p) ==
    /\ runs' = runs \cup {NewRun(kind, p)}
    /\ loop' = [loop EXCEPT !.pc = "await"]

\* A behaviour draws what its users create from one of four menus: the
\* triggers of user a made by a user, by root, or as a directory; files of
\* several shapes in a's home; the triggers of two domains; and files whose
\* creations the watcher may report two to an event.
UserFile == FileOf(1000, UserContent)
RootFile == FileOf(RootUid, UserContent)
BatchMenu ==
    {<<PathDeepA, UserFile>>, <<PathDomainA, RootFile>>,
     <<PathDomainB, UserFile>>, <<PathRemoveA, UserFile>>}
Menus ==
    {   BatchMenu,
        {<<PathDomainA, UserFile>>, <<PathDomainA, RootFile>>,
         <<PathDomainA, DirOf(1000)>>,
         <<PathRemoveA, UserFile>>, <<PathRemoveA, RootFile>>,
         <<PathRemoveA, DirOf(1000)>>},
        {<<PathDomainA, UserFile>>, <<PathOtherA, UserFile>>,
         <<PathDeepA, UserFile>>},
        {<<PathDomainA, UserFile>>, <<PathRemoveA, UserFile>>,
         <<PathDomainB, UserFile>>} }

\* no call of the DS derivation by itself
NoDerivation == [domain |-> <<>>, stdout |-> <<>>, dsRecord |-> <<>>, pc |-> "none"]

Init ==
    /\ home = [p \in Paths |-> Absent]
    /\ files = {}
    /\ queue = <<>>
    /\ loop = Idle
    /\ runs = {}
    /\ finished = [run |-> NoRun, outcome |-> "never"]
    /\ last = [d \in Domains |-> NoLast]
    /\ nOps = 0
    /\ nFaults = 0
    /\ menu \in Menus
    /\ dsfromkey = NoDerivation

(***************************************************************************)
(* The environment: users (and root) create and remove files under /home,  *)
(* and the watcher queues one event for each change.                       *)
(***************************************************************************)
UserCreate(p, entry) ==
    /\ nOps < MaxEnvOps
    /\ home[p].k = "absent"
    /\ home' = [home EXCEPT ![p] = entry]
    /\ queue' = Append(queue, Event("create", <<p>>, "user"))
    /\ nOps' = nOps + 1
    /\ UNCHANGED <<files, loop, runs, finished, last, nFaults, menu, dsfromkey>>

\* two creations that the watcher reports as one event with two paths
UserCreateBatch(c1, c2) ==
    /\ menu = BatchMenu
    /\ nOps + 2 <= MaxEnvOps
    /\ c1[1] # c2[1]
    /\ home[c1[1]].k = "absent" /\ home[c2[1]].k = "absent"
    /\ home' = [home EXCEPT ![c1[1]] = c1[2], ![c2[1]] = c2[2]]
    /\ queue' = Append(queue, Event("create", <<c1[1], c2[1]>>, "user"))
    /\ nOps' = nOps + 2
    /\ UNCHANGED <<files, loop, runs, finished, last, nFaults, menu, dsfromkey>>

UserRemove(p) ==
    /\ nOps < MaxEnvOps
    /\ home[p].k # "absent"
    /\ home' = [home EXCEPT ![p] = Absent]
    /\ queue' = Append(queue, Event("remove", <<p>>, "user"))
    /\ nOps' = nOps + 1
    /\ UNCHANGED <<files, loop, runs, finished, last, nFaults, menu, dsfromkey>>

\* for await (const event of watcher): the next event, and the synchronous
\* part of its handling
Poll ==
    /\ loop.pc = "poll"
    /\ queue # <<>>
    /\ queue' = Tail(queue)
    /\ loop' = IF ActsOn(Head(queue)) THEN Resume(Head(queue), 1) ELSE Idle
    /\ UNCHANGED <<home, files, runs, finished, last, nOps, nFaults, menu, dsfromkey>>

\* lines 267-272 (kind "create") and 275-280 (kind "remove"): Deno.stat
\* rejects when the file is gone, and nothing catches that
StatAndDispatch(kind) ==
    LET p == loop.ev.paths[loop.i] IN
    IF home[p].k = "absent"
    THEN loop' = Crashed /\ UNCHANGED runs
    ELSE IF IsRootOwned(home[p])
    THEN loop' = Resume(loop.ev, loop.i + 1) /\ UNCHANGED runs
    ELSE Dispatch(kind, p)

StatCreate ==
    /\ loop.pc = "statCreate"
    /\ StatAndDispatch("create")
    /\ UNCHANGED <<home, files, queue, finished, last, nOps, nFaults, menu, dsfromkey>>

\* the remove branch without the lines 276-278
StatRemoveUnchecked ==
    /\ loop.pc = "statRemove"
    /\ IF home[loop.ev.paths[loop.i]].k = "absent"
       THEN loop' = Crashed /\ UNCHANGED runs
       ELSE Dispatch("remove", loop.ev.paths[loop.i])
    /\ UNCHANGED <<home, files, queue, finished, last, nOps, nFaults, menu, dsfromkey>>

StatRemove ==
    /\ loop.pc = "statRemove"
    /\ StatAndDispatch("remove")
    /\ UNCHANGED <<home, files, queue, finished, last, nOps, nFaults, menu, dsfromkey>>

(***************************************************************************)
(* The end of a run, and its write to the trigger file.                    *)
(***************************************************************************)
\* the run r ends as r2 with the outcome given; the loop, which awaited it,
\* goes on with the next path, or dies with the run's uncaught rejection
Finish(r, r2, outcome) ==
    /\ runs' = runs \ {r}
    /\ finished' = [run |-> [r2 EXCEPT !.pc = "", !.steps = Append(@, r.pc)],
                    outcome |-> outcome]
    /\ last' = [last EXCEPT ![r.domain] = <<r.kind, outcome, files # r.before>>]
    /\ loop' = IF outcome = "none" THEN Crashed
               ELSE IF loop.pc = "await" THEN Resume(loop.ev, loop.i + 1)
               ELSE loop

\* Deno.writeTextFile(path, text) where it can be done: an existing file
\* keeps its owner and the watcher reports a modification; a missing file
\* is created, owned by the service, and the watcher reports a creation
WriteTrigger(p, text) ==
    /\ home[p].k # "dir"
    /\ home' = [home EXCEPT ![p] =
                  IF home[p].k = "file" THEN FileOf(home[p].uid, text)
                  ELSE FileOf(ServiceUid, text)]
    /\ queue' = Append(queue,
                  Event(IF home[p].k = "file" THEN "modify" ELSE "create", <<p>>,
                        "service"))

\* line 42: the success message; a rejection of the write is caught at 44
WriteSuccess(r) ==
    /\ r.kind = "create" /\ r.pc = "writeOk"
    /\ \/ /\ WriteTrigger(r.path, SuccessMessage(r.domain, r.ds, r.tlsa))
          /\ Finish(r, [r EXCEPT !.ops = @ + 1], "ok")
       \/ /\ home[r.path].k = "dir"
          /\ Step(r, Throw(r, "writeOk"))
          /\ UNCHANGED <<home, queue, loop, finished, last>>
    /\ UNCHANGED <<files, nOps, nFaults, menu, dsfromkey>>

\* lines 47 and 195: `Error: ${e.message}`; a rejection of this write is
\* caught nowhere
WriteError(r) ==
    /\ r.pc = "writeErr"
    /\ \/ /\ WriteTrigger(r.path, ErrorContent(r.err))
          /\ Finish(r, [r EXCEPT !.ops = @ + 1], "error")
       \/ /\ home[r.path].k = "dir"
          /\ Finish(r, r, "none")
          /\ UNCHANGED <<home, queue>>
    /\ UNCHANGED <<files, nOps, nFaults, menu, dsfromkey>>

CreateWriteError == \E r \in runs : r.kind = "create" /\ WriteError(r)
RemoveWriteError == \E r \in runs : r.kind = "remove" /\ WriteError(r)

\* line 191: Deno.remove(path); NotFound when the user took the file away
RemoveTrigger(r) ==
    /\ r.kind = "remove" /\ r.pc = "rmTrigger"
    /\ \/ /\ home[r.path].k # "absent"
          /\ home' = [home EXCEPT ![r.path] = Absent]
          /\ queue' = Append(queue, Event("remove", <<r.path>>, "service"))
          /\ Finish(r, [r EXCEPT !.ops = @ + 1], "deleted")
       \/ /\ home[r.path].k = "absent"
          /\ Step(r, Throw(r, "rmTrigger"))
          /\ UNCHANGED <<home, queue, loop, finished, last>>
    /\ UNCHANGED <<files, nOps, nFaults, menu, dsfromkey>>

(***************************************************************************)
(* The steps of the Provisioning Pipeline.                                 *)
(***************************************************************************)
\* an external command or a file write that changes `files` to fs when it
\* succeeds and throws otherwise
Attempt(r, fs, r2) ==
    /\ \/ NoFault /\ files' = fs /\ Step(r, r2)
       \/ Fault /\ UNCHANGED files /\ Step(r, Throw(r, r.pc))
    /\ UNCHANGED <<home, queue, loop, finished, last, nOps, menu, dsfromkey>>

\* lines 55-60: certificates.sh places the certificate and its key
generateCertificates(r) ==
    /\ r.kind = "create" /\ r.pc = "cert"
    /\ Attempt(r, files \cup {Crt(r.domain), Key(r.domain)}, Ok(r))

\* lines 63-70: tlsa.sh prints the TLSA value
generateTlsa(r) ==
    /\ r.kind = "create" /\ r.pc = "tlsa"
    /\ \E out \in TlsaOutputs :
          Attempt(r, files, [Ok(r) EXCEPT !.tlsa = Trim(out)])

\* lines 73-91
createZoneFile(r) ==
    /\ r.kind = "create" /\ r.pc = "zone"
    /\ Attempt(r, files \cup {Zone(r.domain)}, Ok(r))

\* the key tags dnssec-keygen can still give the domain; the tags are
\* interchangeable, and the model hands out the least one
FreshKeyIds(d) ==
    LET free == {id \in KeyIds : KeyPair(d, id) \cap files = {}} IN
    {id \in free : \A other \in free : id <= other}

\* lines 93-104: dnssec-keygen writes a new key pair and prints its name;
\* with every tag of the domain in use it finds none and exits non-zero
generateDnssecKey(r) ==
    /\ r.kind = "create" /\ r.pc = "keygen"
    /\ \/ \E id \in FreshKeyIds(r.domain) :
            /\ NoFault
            /\ files' = files \cup KeyPair(r.domain, id)
            /\ Step(r, [Ok(r) EXCEPT !.keyFile = id])
       \/ Fault /\ UNCHANGED files /\ Step(r, Throw(r, r.pc))
       \/ /\ FreshKeyIds(r.domain) = {}
          /\ NoFault
          /\ UNCHANGED files
          /\ Step(r, Throw(r, r.pc))
    /\ UNCHANGED <<home, queue, loop, finished, last, nOps, menu, dsfromkey>>

\* lines 106-119
generateCorefile(r) ==
    /\ r.kind = "create" /\ r.pc = "corefile"
    /\ Attempt(r, files \cup {Corefile(r.domain)}, Ok(r))

\* line 130 without its replace
DsRecordUnstripped(d, stdout) == Trim(stdout)

\* line 130
DsRecordOf(d, stdout) == Trim(ReplaceFirst(stdout, DsPrefix(d), <<>>))

\* lines 121-133
generateDsRecord(r) ==
    /\ r.kind = "create" /\ r.pc = "ds"
    /\ \E out \in DsOutputs(r.domain) :
          Attempt(r, files,
                  [Ok(r) EXCEPT !.dsRaw = out, !.ds = DsRecordOf(r.domain, out)])

\* lines 147-156: the fragment is written
writeCaddyFile(r) ==
    /\ r.kind = "create" /\ r.pc = "caddyWrite"
    /\ Attempt(r, files \cup {Caddyfile(r.domain)}, Ok(r))

\* line 162 left out
AfterFailedValidateKept(fs, d) == fs

\* what a failed validation leaves of the files (line 162)
AfterFailedValidate(fs, d) == fs \ {Caddyfile(d)}

\* lines 158-161: caddy validate; a non-zero exit leads to line 162
validateCaddyFile(r) ==
    /\ r.kind = "create" /\ r.pc = "caddyValidate"
    /\ \/ NoFault /\ Step(r, Ok(r))
       \/ Fault /\ Step(r, [r EXCEPT !.pc = "caddyRemove", !.steps = Append(@, r.pc)])
    /\ UNCHANGED <<home, files, queue, loop, finished, last, nOps, menu, dsfromkey>>

\* lines 162-163: the fragment this run wrote at line 156 is removed, then
\* the validation error is thrown
removeInvalidCaddyFile(r) ==
    /\ r.kind = "create" /\ r.pc = "caddyRemove"
    /\ files' = AfterFailedValidate(files, r.domain)
    /\ Step(r, Throw(r, "caddyValidate"))
    /\ UNCHANGED <<home, queue, loop, finished, last, nOps, nFaults, menu, dsfromkey>>

\* lines 135-143, from either pipeline
restartCoreDns(r) ==
    /\ r.pc = "restart"
    /\ Attempt(r, files, Ok(r))

\* lines 167-175, from either pipeline
reloadCaddy(r) ==
    /\ r.pc = "reload"
    /\ Attempt(r, files, Ok(r))

(***************************************************************************)
(* The steps of the Decommission Pipeline.                                 *)
(***************************************************************************)
\* the removal with a catch that throws NotFound on as well
RemoveStrict(r, f, then) ==
    /\ \/ /\ f \in files
          /\ NoFault
          /\ files' = files \ {f}
          /\ Step(r, Ok(r))
       \/ /\ f \in files
          /\ Fault
          /\ UNCHANGED files
          /\ Step(r, Throw(r, r.pc))
       \/ /\ f \notin files
          /\ NoFault
          /\ UNCHANGED files
          /\ Step(r, Throw(r, r.pc))
    /\ UNCHANGED <<home, queue, loop, finished, last, nOps, nFaults, menu, dsfromkey>>

\* Deno.remove(f) inside try/catch (lines 201-208 and alike): a file that is
\* there is removed, or the removal fails for another reason and the error
\* is thrown on; a missing file is NotFound, which the catch swallows, and
\* the function returns, so the run goes on at the await `then`
RemoveTolerant(r, f, then) ==
    /\ \/ /\ f \in files
          /\ NoFault
          /\ files' = files \ {f}
          /\ Step(r, Ok(r))
       \/ /\ f \in files
          /\ Fault
          /\ UNCHANGED files
          /\ Step(r, Throw(r, r.pc))
       \/ /\ f \notin files
          /\ NoFault
          /\ UNCHANGED files
          /\ Step(r, [r EXCEPT !.pc = then, !.steps = Append(@, r.pc)])
    /\ UNCHANGED <<home, queue, loop, finished, last, nOps, menu, dsfromkey>>

\* line 202; its NotFound leaves removeCertificates through the catch, past
\* line 203
removeCrt(r) ==
    /\ r.kind = "remove" /\ r.pc = "rmCrt"
    /\ RemoveTolerant(r, Crt(r.domain), "rmZone")

\* line 203
removeKey(r) ==
    /\ r.kind = "remove" /\ r.pc = "rmKey"
    /\ RemoveTolerant(r, Key(r.domain), "rmZone")

\* lines 212-221
removeZoneFile(r) ==
    /\ r.kind = "remove" /\ r.pc = "rmZone"
    /\ RemoveTolerant(r, Zone(r.domain), "rmDnssec")

\* the name of a DNSSEC key file, and the glob of line 226 without its `*`
AlgTag == <<".", "+", "0", "1", "3", "+">>
KeyFileName(f) == <<"K">> \o f.d \o AlgTag \o <<f.id, ".", f.ext>>
\* the pattern of line 226 without its domain
GlobStemAnyDomain(d) == <<"K">>
GlobStem(d) == <<"K">> \o d \o AlgTag
IsPrefix(a, b) == Len(a) <= Len(b) /\ SubSeq(b, 1, Len(a)) = a

\* a removal that takes the domain to have one key pair, the oldest
GlobKeysOnePair(d) ==
    {f \in files :
        /\ f.t = "dnssec" /\ f.d = d
        /\ \A g \in files : (g.t = "dnssec" /\ g.d = d) => f.id <= g.id}

\* expandGlob(`/etc/coredns/keys/K${domain}.+013+*`): the files of the key
\* directory whose name starts with the stem (a domain of the model holds no
\* glob metacharacter)
GlobKeys(d) ==
    {f \in files : f.t = "dnssec" /\ IsPrefix(GlobStem(d), KeyFileName(f))}

\* lines 223-228 and 252-259: every match is removed; a removal that fails
\* is caught nowhere in removeFiles and ends the run, after the removals
\* before it
removeDnssecKey(r) ==
    /\ r.kind = "remove" /\ r.pc = "rmDnssec"
    /\ \/ /\ NoFault
          /\ files' = files \ GlobKeys(r.domain)
          /\ Step(r, Ok(r))
       \/ \E gone \in SUBSET GlobKeys(r.domain) :
            /\ gone # GlobKeys(r.domain)
            /\ Fault
            /\ files' = files \ gone
            /\ Step(r, Throw(r, r.pc))
    /\ UNCHANGED <<home, queue, loop, finished, last, nOps, menu, dsfromkey>>

\* lines 230-239
removeCorefile(r) ==
    /\ r.kind = "remove" /\ r.pc = "rmCorefile"
    /\ RemoveTolerant(r, Corefile(r.domain), "rmCaddy")

\* lines 241-250
removeCaddyfile(r) ==
    /\ r.kind = "remove" /\ r.pc = "rmCaddy"
    /\ RemoveTolerant(r, Caddyfile(r.domain), "restart")

(***************************************************************************)
(* The system.                                                             *)
(***************************************************************************)
Next ==
    \/ \E c \in menu : UserCreate(c[1], c[2])
    \/ \E c1 \in menu : \E c2 \in menu : UserCreateBatch(c1, c2)
    \/ \E p \in Paths : UserRemove(p)
    \/ Poll
    \/ StatCreate
    \/ StatRemove
    \/ \E r \in runs : generateCertificates(r)
    \/ \E r \in runs : generateTlsa(r)
    \/ \E r \in runs : createZoneFile(r)
    \/ \E r \in runs : generateDnssecKey(r)
    \/ \E r \in runs : generateCorefile(r)
    \/ \E r \in runs : generateDsRecord(r)
    \/ \E r \in runs : writeCaddyFile(r)
    \/ \E r \in runs : validateCaddyFile(r)
    \/ \E r \in runs : removeInvalidCaddyFile(r)
    \/ \E r \in runs : restartCoreDns(r)
    \/ \E r \in runs : reloadCaddy(r)
    \/ \E r \in runs : WriteSuccess(r)
    \/ CreateWriteError
    \/ \E r \in runs : removeCrt(r)
    \/ \E r \in runs : removeKey(r)
    \/ \E r \in runs : removeZoneFile(r)
    \/ \E r \in runs : removeDnssecKey(r)
    \/ \E r \in runs : removeCorefile(r)
    \/ \E r \in runs : removeCaddyfile(r)
    \/ \E r \in runs : RemoveTrigger(r)
    \/ RemoveWriteError

Spec == Init /\ [][Next]_vars

(***************************************************************************)
(* The system under the assumption that the program is scheduled: the      *)
(* event loop runs whenever an event waits or an awaited call can return.  *)
(***************************************************************************)
RunStep ==
    \E r \in runs :
        \/ generateCertificates(r) \/ generateTlsa(r) \/ createZoneFile(r)
        \/ generateDnssecKey(r) \/ generateCorefile(r) \/ generateDsRecord(r)
        \/ writeCaddyFile(r) \/ validateCaddyFile(r) \/ removeInvalidCaddyFile(r)
        \/ restartCoreDns(r) \/ reloadCaddy(r) \/ WriteSuccess(r) \/ WriteError(r)
        \/ removeCrt(r) \/ removeKey(r) \/ removeZoneFile(r) \/ removeDnssecKey(r)
        \/ removeCorefile(r) \/ removeCaddyfile(r) \/ RemoveTrigger(r)

ProgramStep == Poll \/ StatCreate \/ StatRemove \/ RunStep

FairSpec == Init /\ [][Next]_vars /\ WF_vars(ProgramStep)

(***************************************************************************)
(* The DS derivation by itself (line 130), on outputs of the DS tool put   *)
(* together from pieces: the prefix, white space, a digit.                 *)
(***************************************************************************)
DsPieces(d) == {DsPrefix(d), <<" ">>, <<"\n">>, <<"7">>}

RECURSIVE Texts(_, _)
Texts(pieces, n) ==
    IF n = 0 THEN {<<>>}
    ELSE LET shorter == Texts(pieces, n - 1) IN
         shorter \cup {t \o q : t \in shorter, q \in pieces}

InitDs ==
    /\ home = [p \in Paths |-> Absent]
    /\ files = {}
    /\ queue = <<>>
    /\ loop = Idle
    /\ runs = {}
    /\ finished = [run |-> NoRun, outcome |-> "never"]
    /\ last = [d \in Domains |-> NoLast]
    /\ nOps = 0
    /\ nFaults = 0
    /\ menu = BatchMenu
    /\ \E d \in Domains : \E out \in Texts(DsPieces(d), MaxPieces) :
          dsfromkey = [domain |-> d, stdout |-> out, dsRecord |-> <<>>,
                       pc |-> "call"]

\* line 130 applied to the output
DeriveDsRecord ==
    /\ dsfromkey.pc = "call"
    /\ dsfromkey' =
          [dsfromkey EXCEPT
              !.dsRecord = DsRecordOf(dsfromkey.domain, dsfromkey.stdout),
              !.pc = "done"]
    /\ UNCHANGED <<home, files, queue, loop, runs, finished, last, nOps,
                   nFaults, menu>>

NextDs == DeriveDsRecord

SpecDs == InitDs /\ [][NextDs]_vars

(***************************************************************************)
(* Vocabulary of the properties.                                           *)
(***************************************************************************)
\* this step is the end of run r
Ends(r) == r \in runs /\ runs' = runs \ {r}

\* this step is the Deno.stat of the loop, on a file that is there
StatStep == loop.pc \in {"statCreate", "statRemove"} /\ loop' # loop
StatPath == loop.ev.paths[loop.i]

\* the numbered steps of the Provisioning Pipeline, by await
StepNo ==
    [cert |-> 1, tlsa |-> 1, zone |-> 2, keygen |-> 3, corefile |-> 4,
     ds |-> 5, caddyWrite |-> 6, caddyValidate |-> 6, caddyRemove |-> 6,
     restart |-> 7, reload |-> 8, writeOk |-> 9, writeErr |-> 10]

\* the artifacts a run of createDomain owes to its step n
ArtifactsOfStep(r, n) ==
    CASE n = 1 -> {Crt(r.domain), Key(r.domain)}
      [] n = 2 -> {Zone(r.domain)}
      [] n = 3 -> KeyPair(r.domain, r.keyFile)
      [] n = 4 -> {Corefile(r.domain)}
      [] n = 6 -> {Caddyfile(r.domain)}
      [] OTHER -> {}

\* the steps of removeDomain that are removals of artifacts
RemovalSteps ==
    {"rmCrt", "rmKey", "rmZone", "rmDnssec", "rmCorefile", "rmCaddy"}

\* s without pre when s starts with pre
StripPrefix(s, pre) ==
    IF IsPrefix(pre, s) THEN SubSeq(s, Len(pre) + 1, Len(s)) ELSE s

\* <root>/<user>/<name> with one segment between root and name
IsExactly(p, name) ==
    LET seg == Split(p, "/") IN
    /\ Len(seg) = 4
    /\ seg[1] = <<>> /\ seg[2] = <<"h", "o", "m", "e">>
    /\ seg[4] = name

(***************************************************************************)
(* C1. When the ownership check of a create- or remove-trigger finds the   *)
(* file owned by uid 0, the loop goes on to the next path: no run is       *)
(* started for it, and the step changes neither the watched tree nor the   *)
(* artifacts.                                                              *)
(***************************************************************************)
C1_RootOwnedIgnored ==
    [][(StatStep /\ home[StatPath].k = "file" /\ home[StatPath].uid = RootUid)
        => /\ runs' = runs
           /\ home' = home
           /\ files' = files
           /\ loop'.pc \notin {"await", "crashed"}]_vars

\* root's files at both triggers of a have been reported and passed over
C1_Witness ==
    /\ home[PathDomainA] = RootFile
    /\ home[PathRemoveA] = RootFile
    /\ queue = <<>>
    /\ loop = Idle
    /\ finished.outcome = "never"

(***************************************************************************)
(* C2. A run of createDomain whose step k threw ends with the artifacts    *)
(* of the steps before k on disk, no step after k executed, and the        *)
(* trigger file holding `Error: ` and the message of step k.               *)
(***************************************************************************)
C2_FailedStepLeavesError ==
    [][\A r \in runs :
        (Ends(r) /\ r.kind = "create" /\ r.failed # "" /\ StepNo[r.failed] <= 8)
        => /\ \A n \in 1..(StepNo[r.failed] - 1) : ArtifactsOfStep(r, n) \subseteq files'
           /\ \A i \in 1..Len(r.steps) : StepNo[r.steps[i]] <= StepNo[r.failed]
           /\ home'[r.path] \in {FileOf(uid, ErrorContent(ErrorText[r.failed])) :
                                    uid \in {RootUid, 1000}}]_vars

(***************************************************************************)
(* C3 as stated. A run of removeDomain that follows a run of removeDomain  *)
(* of the same domain changes no artifact of the domain and reports no     *)
(* error.                                                                  *)
(***************************************************************************)
C3_SecondRunSilent ==
    [][\A r \in runs :
        (r.kind = "remove" /\ r.prev[1] = "remove")
        => /\ {f \in files' : f.d = r.domain} = ArtifactsOf(r.domain)
           /\ (Ends(r) => finished'.outcome = "deleted")]_vars

(***************************************************************************)
(* C3 as amended. A run of removeDomain that follows a run of removeDomain *)
(* of the same domain which ended with its trigger deleted changes no      *)
(* artifact of the domain; the only errors it reports are those of the two *)
(* service reloads and of the removal of the trigger file, never a missing *)
(* artifact.                                                               *)
(***************************************************************************)
C3_SecondRunNoOp ==
    [][\A r \in runs :
        (r.kind = "remove" /\ r.prev[1] = "remove" /\ r.prev[2] = "deleted")
        => /\ {f \in files' : f.d = r.domain} = ArtifactsOf(r.domain)
           /\ (Ends(r) => r.failed \in {"", "restart", "reload", "rmTrigger"})]_vars

\* a domain was decommissioned twice in a row, each time to the end, and
\* the first run removed artifacts
C3_Witness ==
    /\ finished.run.kind = "remove"
    /\ finished.outcome = "deleted"
    /\ finished.run.prev = <<"remove", "deleted", TRUE>>

(***************************************************************************)
(* C4. No failure while a trigger is handled stops the driving loop.       *)
(***************************************************************************)
C4_LoopSurvives == loop.pc # "crashed"

(***************************************************************************)
(* C5. Every run ends with one of the three outcomes on its trigger file,  *)
(* having written or deleted it exactly once.                              *)
(***************************************************************************)
C5_ExactlyOneOutcome ==
    finished.outcome # "never"
    => /\ finished.outcome \in {"ok", "error", "deleted"}
       /\ finished.run.ops = 1

(***************************************************************************)
(* C6. A run of createDomain is started only for <root>/<user>/.domain,    *)
(* and a run of removeDomain only for <root>/<user>/.remove-domain.        *)
(***************************************************************************)
C6_OnlyExactShapes ==
    \A r \in runs :
        /\ r.kind = "create" => IsExactly(r.path, <<".">> \o DomainTail)
        /\ r.kind = "remove" => IsExactly(r.path, <<".">> \o RemoveDomainTail)

(***************************************************************************)
(* C7. At most one run is in progress, and while one is, the loop neither  *)
(* moves nor takes an event from the watcher.                              *)
(***************************************************************************)
C7_SingleFlight ==
    [][/\ Cardinality(runs') <= 1
       /\ (runs # {} /\ runs' # {})
          => (loop' = loop /\ Len(queue') >= Len(queue))]_vars

\* a run waits for the proxy reload while a later creation is queued
C7_Witness ==
    /\ \E r \in runs : r.pc = "reload"
    /\ \E i \in 1..Len(queue) : queue[i].kind = "create"

C9_CleanRunDeletesTrigger ==
    [][\A r \in runs :
        (Ends(r) /\ r.kind = "remove"
            /\ r.failed \notin RemovalSteps \cup {"restart", "reload"})
        => /\ home'[r.path].k = "absent"
           /\ finished'.outcome = "deleted"]_vars

(***************************************************************************)
(* C10. A run of createDomain all of whose steps succeed leaves the        *)
(* trigger file holding the success message: the DS line without its       *)
(* `<domain>. IN DS ` prefix, the TLSA value, the configured NS, A and     *)
(* AAAA, and no error.                                                     *)
(***************************************************************************)
C10_SuccessMessage ==
    [][\A r \in runs :
        (Ends(r) /\ r.kind = "create" /\ r.failed = "")
        => /\ home'[r.path].k = "file"
           /\ home'[r.path].c.kind = "ok"
           /\ home'[r.path].c.ds = Trim(StripPrefix(r.dsRaw, DsPrefix(r.domain)))
           /\ home'[r.path].c.ds # <<>>
           /\ home'[r.path].c.tlsa = r.tlsa
           /\ r.tlsa \in {Trim(out) : out \in TlsaOutputs}
           /\ home'[r.path].c.ns = EnvNS
           /\ home'[r.path].c.a = EnvA
           /\ home'[r.path].c.aaaa = EnvAAAA]_vars

\* a trigger file holds a success message
C10_Witness ==
    /\ finished.outcome = "ok"
    /\ home[finished.run.path].k = "file"
    /\ home[finished.run.path].c.kind = "ok"

(***************************************************************************)
(* C11. A run of removeDomain that ends with its trigger file deleted      *)
(* leaves no artifact of its domain on disk, whatever was there before.    *)
(***************************************************************************)
C11_DecommissionLeavesNothing ==
    [][\A r \in runs :
        (Ends(r) /\ r.kind = "remove" /\ finished'.outcome = "deleted")
        => {f \in files' : f.d = r.domain} = {}]_vars

(***************************************************************************)
(* C12. The steps a run of createDomain has executed are a prefix of the   *)
(* fixed order (with the removal of a fragment that failed validation      *)
(* after the validation).  The name server is restarted only with the      *)
(* zone file, the Corefile and a validated fragment on disk, and the proxy *)
(* is reloaded only after a restart that succeeded.                        *)
(***************************************************************************)
ProvisioningSteps ==
    <<"cert", "tlsa", "zone", "keygen", "corefile", "ds", "caddyWrite",
      "caddyValidate", "restart", "reload", "writeOk">>
IsPipelineStep(s) == s # "caddyRemove"

C12_ProvisioningOrder ==
    \A r \in runs :
        r.kind = "create"
        => /\ LET s == SelectSeq(r.steps, IsPipelineStep) IN
                s = SubSeq(ProvisioningSteps, 1, Len(s))
           /\ r.pc = "restart"
              => /\ {Zone(r.domain), Corefile(r.domain), Caddyfile(r.domain)}
                        \subseteq files
                 /\ r.steps[Len(r.steps)] = "caddyValidate"
                 /\ r.failed = ""
           /\ r.pc = "reload"
              => r.steps[Len(r.steps)] = "restart" /\ r.failed = ""

\* a run of createDomain has restarted the name server and reloaded the proxy
C12_Witness ==
    \E r \in runs : r.kind = "create" /\ r.pc = "writeOk" /\ r.failed = ""

(***************************************************************************)
(* C13. The steps a run of removeDomain has executed follow the order      *)
(* certificate, key, zone file, DNSSEC keys, Corefile, fragment, restart,  *)
(* reload.  When a removal fails for a reason other than not-found, or a   *)
(* reload fails, no later step is executed and the run ends with the       *)
(* trigger file holding `Error: ` and the message of that failure.         *)
(***************************************************************************)
DecommissionRank ==
    [rmCrt |-> 1, rmKey |-> 2, rmZone |-> 3, rmDnssec |-> 4, rmCorefile |-> 5,
     rmCaddy |-> 6, restart |-> 7, reload |-> 8, rmTrigger |-> 9]

C13_FailedRemovalAborts ==
    [][\A r \in runs :
        r.kind = "remove"
        => /\ \A i, j \in 1..Len(r.steps) :
                i < j => DecommissionRank[r.steps[i]] < DecommissionRank[r.steps[j]]
           /\ (Ends(r) /\ r.failed \in RemovalSteps \cup {"restart", "reload"})
              => /\ r.steps[Len(r.steps)] = r.failed
                 /\ home'[r.path] \in
                        {FileOf(uid, ErrorContent(ErrorText[r.failed])) :
                            uid \in {RootUid, 1000}}]_vars

(***************************************************************************)
(* C14. A run is started only while an event of kind create is handled,    *)
(* and for the path of that event the loop stands at.  An event of another *)
(* kind is dropped.  The loop goes from an event of kind create to its     *)
(* first path of a trigger shape, and from a path it found owned by root   *)
(* to the next path of a trigger shape of the same event, or back to the   *)
(* watcher when there is none.                                             *)
(***************************************************************************)
TriggerIndexes(ev, i) ==
    {j \in i..Len(ev.paths) :
        domainRegex(ev.paths[j]) \/ removeDomainRegex(ev.paths[j])}

GoesOnFrom(ev, i) ==
    IF TriggerIndexes(ev, i) = {} THEN loop' = Idle
    ELSE /\ loop'.ev = ev
         /\ loop'.i \in TriggerIndexes(ev, i)
         /\ \A j \in TriggerIndexes(ev, i) : loop'.i <= j
         /\ loop'.pc \in {"statCreate", "statRemove"}

C14_CreateEventsPathByPath ==
    [][/\ (runs = {} /\ runs' # {})
          => /\ loop.ev.kind = "create"
             /\ \A r \in runs' : r.path = loop.ev.paths[loop.i]
       /\ (loop.pc = "poll" /\ queue # <<>> /\ queue' = Tail(queue))
          => IF Head(queue).kind = "create"
             THEN GoesOnFrom(Head(queue), 1) /\ runs' = runs
             ELSE loop' = Idle /\ runs' = runs
       /\ (StatStep /\ home[StatPath].k = "file" /\ home[StatPath].uid = RootUid)
          => GoesOnFrom(loop.ev, loop.i + 1)]_vars

\* a run for the second path of an event whose first path, a trigger of
\* root, was passed over
C14_Witness ==
    /\ loop.pc = "await"
    /\ loop.i = 2
    /\ home[loop.ev.paths[1]] = RootFile
    /\ \E r \in runs : r.path = loop.ev.paths[2]

(***************************************************************************)
(* C15. A run of removeDomain that ends with its trigger file deleted      *)
(* leaves no DNSSEC key file of its domain, however many key pairs the     *)
(* domain had.                                                             *)
(***************************************************************************)
DnssecFilesOf(fs, d) == {f \in fs : f.t = "dnssec" /\ f.d = d}

C15_NoKeyFileLeft ==
    [][\A r \in runs :
        (Ends(r) /\ r.kind = "remove" /\ finished'.outcome = "deleted")
        => DnssecFilesOf(files', r.domain) = {}]_vars

\* a domain provisioned twice, with two key pairs, has been decommissioned
C15_Witness ==
    /\ runs = {}
    /\ finished.run.kind = "remove"
    /\ finished.outcome = "deleted"
    /\ Cardinality(DnssecFilesOf(finished.run.before, finished.run.domain)) = 4
    /\ DnssecFilesOf(files, finished.run.domain) = {}

(***************************************************************************)
(* C16. The domain of every run is not empty, and the path of the run is   *)
(* the watched root, the domain as one segment, and a file name.           *)
(***************************************************************************)
C16_DomainIsUserSegment ==
    \A r \in runs :
        LET n == Len(HomeSlash) + Len(r.domain) IN
        /\ r.domain # <<>>
        /\ \A k \in 1..Len(r.domain) : r.domain[k] # "/"
        /\ Len(r.path) > n + 1
        /\ SubSeq(r.path, 1, n) = HomeSlash \o r.domain
        /\ r.path[n + 1] = "/"
        /\ \A k \in (n + 2)..Len(r.path) : r.path[k] # "/"

\* runs for both users have been under way
C16_Witness ==
    /\ \E r \in runs : r.domain = UserB
    /\ last[UserA][2] # "never"

(***************************************************************************)
(* C18. A step of a run changes no artifact of another domain and no file  *)
(* of the watched tree but the trigger of the run.                         *)
(***************************************************************************)
C18_OnlyOwnFiles ==
    [][\A r \in runs :
        runs' # runs
        => /\ \A f \in (files \ files') \cup (files' \ files) : f.d = r.domain
           /\ \A p \in Paths \ {r.path} : home'[p] = home[p]]_vars

\* domain a was decommissioned while domain b had its keys, and b has them
C18_Witness ==
    /\ runs = {}
    /\ finished.run.kind = "remove"
    /\ finished.run.domain = UserA
    /\ finished.outcome = "deleted"
    /\ DnssecFilesOf(finished.run.before, UserB) # {}
    /\ DnssecFilesOf(files, UserB) = DnssecFilesOf(finished.run.before, UserB)

(***************************************************************************)
(* C17. The DS derivation returns the tool's output without the text       *)
(* `<domain>. IN DS ` when the output starts with it, trimmed; the text    *)
(* at any other place stays.                                               *)
(***************************************************************************)
C17_StripsLeadingPrefixOnly ==
    dsfromkey.pc = "done"
    => dsfromkey.dsRecord =
          Trim(StripPrefix(dsfromkey.stdout, DsPrefix(dsfromkey.domain)))

(***************************************************************************)
(* C19. A create event in the watcher's queue for a trigger that a user    *)
(* owns leads to a run for its path, unless the trigger ceases to be a     *)
(* user's; and a run under way leads to its end with the success message,  *)
(* the error text, or the trigger deleted.                                 *)
(***************************************************************************)
UserOwns(p) == home[p].k # "absent" /\ home[p].uid # RootUid
Delivered(p) ==
    /\ Classify(p) # "ignore"
    /\ UserOwns(p)
    /\ \E i \in 1..Len(queue) :
          /\ queue[i].kind = "create"
          /\ \E j \in 1..Len(queue[i].paths) : queue[i].paths[j] = p
Running(p) == \E r \in runs : r.path = p
Completed(p) ==
    /\ runs = {}
    /\ finished.run.path = p
    /\ finished.outcome \in {"ok", "error", "deleted"}

C19_DeliveredEventsComplete ==
    \A p \in Paths :
        /\ Delivered(p) ~> (Running(p) \/ ~UserOwns(p))
        /\ Running(p) ~> Completed(p)

(***************************************************************************)
(* C20. A run is started only while an event that reports a change made by *)
(* a user is handled, never while an event of the run's own status write   *)
(* is; and the end of a run takes the loop on to a later path of the event *)
(* or back to the watcher.                                                 *)
(***************************************************************************)
C20_StatusWriteStartsNoRun ==
    [][/\ (runs = {} /\ runs' # {}) => loop.ev.by = "user"
       /\ \A r \in runs :
            (Ends(r) /\ loop'.pc \notin {"poll", "crashed"})
            => loop'.ev = loop.ev /\ loop'.i > loop.i]_vars

====
